---- MODULE Spec2Model ----
(***************************************************************************)
(* Model of the Funky Todo API (src/main.py): a FastAPI service over a     *)
(* MongoDB collection "task".  Handlers are plain `def` endpoints, which   *)
(* FastAPI runs on a thread pool, so requests interleave at the            *)
(* granularity of their store calls; each store call is atomic on a single *)
(* document.                                                               *)
(*                                                                         *)
(* Data representation                                                     *)
(*   Optional values  : None == <<>>, Some(v) == <<v>>                     *)
(*   text             : its length (the only attribute the field          *)
(*                      constraints of TaskCreate/TaskUpdate read)         *)
(*   datetime         : a clock reading 0..MaxTime                         *)
(*   document         : a function from its keys to Optional values        *)
(*   task_id (string) : [kind, val]; kind "hex24" is a 24-digit hex string *)
(*                      (the only strings ObjectId() accepts)              *)
(***************************************************************************)
EXTENDS Integers, Sequences, FiniteSets, TLC

\* ---- bounds of the model ----
NumReq == 2        \* request handlers that can be in flight together
MaxRequests == 3   \* requests served in one run
MaxTime == 1       \* readings of the clock are 0..MaxTime

\* ---- constants of the program ----
MinTitleLen == 1
MaxTitleLen == 200
MaxNotesLen == 2000

VARIABLES
  dbConfigured,  \* database.db is not None
  store,         \* db["task"]: ObjectId -> document
  nextId,        \* the next ObjectId the store assigns
  now,           \* the clock datetime.utcnow() reads
  req,           \* per handler thread: the request being served and its locals
  nreq,          \* requests accepted so far (arrival numbers)
  deleted        \* ObjectIds for which delete_one reported deleted_count = 1

vars == <<dbConfigured, store, nextId, now, req, nreq, deleted>>

Reqs == 1..NumReq

None == <<>>
Some(v) == <<v>>
IsNone(v) == v = <<>>
Val(v) == v[1]

\* dict.get(k) / dict.get(k, default)
Get(d, k) == IF k \in DOMAIN d THEN d[k] ELSE None
GetOr(d, k, dflt) == IF k \in DOMAIN d THEN d[k] ELSE dflt

\* Python truthiness of an Optional bool: bool(None) = bool(False) = False
Bool(v) == IF IsNone(v) THEN FALSE ELSE Val(v) = TRUE

\* ---- identifiers ----
\* str(ObjectId): the 24-digit hex rendering of the id
StrOid(oid) == [kind |-> "hex24", val |-> oid]

\* mutant of ObjectIdParses: the id is never rejected
ObjectIdParsesAny(task_id) == TRUE

\* ObjectId(task_id): parses exactly the 24-digit hex strings, raises otherwise
ObjectIdParses(task_id) == task_id.kind = "hex24"
ObjectId(task_id) == task_id.val

\* ---- request models ----
UpdateFields == {"title", "notes", "priority", "due_date", "completed"}

TitleOk(v) == Val(v) >= MinTitleLen /\ Val(v) <= MaxTitleLen
NotesOk(v) == Val(v) <= MaxNotesLen

\* TaskCreate: title is required and constrained; notes Optional, constrained
TaskCreateValid(body) ==
  /\ "title" \in DOMAIN body
  /\ ~IsNone(body["title"])
  /\ TitleOk(body["title"])
  /\ "notes" \in DOMAIN body => (IsNone(body["notes"]) \/ NotesOk(body["notes"]))

\* TaskCreate defaults: notes None, priority "normal", due_date None
TaskCreate(body) ==
  [title |-> body["title"],
   notes |-> GetOr(body, "notes", None),
   priority |-> GetOr(body, "priority", Some("normal")),
   due_date |-> GetOr(body, "due_date", None)]

\* TaskUpdate: every field Optional; the length constraints apply to a
\* supplied non-null value only (None passes Optional[str])
TaskUpdateValid(body) ==
  /\ "title" \in DOMAIN body => (IsNone(body["title"]) \/ TitleOk(body["title"]))
  /\ "notes" \in DOMAIN body => (IsNone(body["notes"]) \/ NotesOk(body["notes"]))

\* TaskUpdate instance: all five attributes (default None) and the fields set
TaskUpdate(body) ==
  [attrs |-> [k \in UpdateFields |-> GetOr(body, k, None)],
   fields_set |-> DOMAIN body]

\* mutant of ModelDumpExcludeUnset: model_dump() without exclude_unset
ModelDumpAll(payload) == payload.attrs

\* payload.model_dump(exclude_unset=True)
ModelDumpExcludeUnset(payload) ==
  [k \in payload.fields_set |-> payload.attrs[k]]

\* ---- serialization ----
\* datetime.isoformat()
IsoFormat(t) == <<"iso", t>>

IsoOrNone(v) == IF IsNone(v) THEN None ELSE Some(IsoFormat(Val(v)))

\* serialize_task: a missing document passes through
serialize_task(doc) ==
  IF IsNone(doc) THEN None
  ELSE LET d == Val(doc) IN
    Some([id |-> StrOid(Val(Get(d, "_id"))),
          title |-> Get(d, "title"),
          notes |-> Get(d, "notes"),
          priority |-> GetOr(d, "priority", Some("normal")),
          due_date |-> IsoOrNone(Get(d, "due_date")),
          completed |-> Bool(GetOr(d, "completed", Some(FALSE))),
          created_at |-> IsoOrNone(Get(d, "created_at")),
          updated_at |-> IsoOrNone(Get(d, "updated_at"))])

\* ---- store calls on db["task"] ----
\* find_one({"_id": oid})
FindOne(s, oid) == IF oid \in DOMAIN s THEN Some(s[oid]) ELSE None

\* the document after {"$set": updates}
SetFields(doc, updates) ==
  [k \in DOMAIN doc \cup DOMAIN updates |->
     IF k \in DOMAIN updates THEN updates[k] ELSE doc[k]]

\* mutant of UpdateOne: update_one(..., upsert=True)
UpdateOneUpsert(s, oid, updates) ==
  [i \in DOMAIN s \cup {oid} |->
     IF i \in DOMAIN s THEN (IF i = oid THEN SetFields(s[i], updates) ELSE s[i])
     ELSE SetFields([_id |-> Some(oid)], updates)]

\* update_one({"_id": oid}, {"$set": updates}): no upsert
UpdateOne(s, oid, updates) ==
  IF oid \in DOMAIN s
  THEN [s EXCEPT ![oid] = SetFields(s[oid], updates)]
  ELSE s

MatchedCount(s, oid) == IF oid \in DOMAIN s THEN 1 ELSE 0

\* delete_one({"_id": oid})
DeleteOne(s, oid) == [i \in DOMAIN s \ {oid} |-> s[i]]

DeletedCount(s, oid) == IF oid \in DOMAIN s THEN 1 ELSE 0

\* create_document("task", data): insert with a fresh id, stamping created_at
CreateDocument(s, id, data, t) ==
  [i \in DOMAIN s \cup {id} |->
     IF i = id
     THEN SetFields(data, [_id |-> Some(id), created_at |-> Some(t)])
     ELSE s[i]]

\* the sort key of a document: a missing or null created_at sorts below
\* every datetime
CreatedKey(doc) ==
  IF IsNone(Get(doc, "created_at")) THEN -1 ELSE Val(doc["created_at"])

\* find({}).sort("created_at", -1): newest first, ties in natural (id) order
RECURSIVE SortCreatedDesc(_, _)
SortCreatedDesc(s, ids) ==
  IF ids = {} THEN <<>>
  ELSE LET first == CHOOSE i \in ids :
                      \A j \in ids :
                        \/ CreatedKey(s[i]) > CreatedKey(s[j])
                        \/ CreatedKey(s[i]) = CreatedKey(s[j]) /\ i <= j
       IN <<s[first]>> \o SortCreatedDesc(s, ids \ {first})

FindAllSorted(s) == SortCreatedDesc(s, DOMAIN s)

\* ---- inputs the clients send ----
\* task_id path parameters: the ids assigned so far, one never assigned, and
\* a string ObjectId() rejects
TaskIdInputs ==
  {StrOid(i) : i \in 1..nextId} \cup {[kind |-> "text", val |-> 1]}

\* POST bodies: priority and due_date omitted (the defaults apply)
CreateBodies ==
  {[title |-> Some(MinTitleLen), notes |-> Some(MaxNotesLen)],
   [title |-> Some(MinTitleLen - 1)],
   [title |-> Some(MaxTitleLen), notes |-> Some(MaxNotesLen + 1)]}

\* PATCH bodies: none, one or two fields supplied, null and out-of-range
\* values among them
UpdateBodyInputs ==
  {<<>>,
   [title |-> None],
   [title |-> Some(MaxTitleLen)],
   [title |-> Some(MaxTitleLen + 1)],
   [title |-> Some(MinTitleLen - 1)],
   [notes |-> None],
   [notes |-> Some(MaxNotesLen + 1)],
   [priority |-> Some("high"), due_date |-> Some(0)],
   [completed |-> Some(TRUE)]}

\* ---- handler threads ----
Idle ==
  [op |-> "none", n |-> 0, pc |-> "idle", task_id |-> None, updates |-> None,
   doc |-> None, status |-> 0, detail |-> "", body |-> None]

\* a thread takes the next request: arrival number n, locals cleared
Accept(r, op, task_id) ==
  [Idle EXCEPT !.op = op, !.n = nreq + 1, !.task_id = task_id]

\* the response: raise HTTPException(status, detail) or return body
Respond(rq, status, detail, body) ==
  [rq EXCEPT !.pc = "done", !.status = status, !.detail = detail, !.body = body]

\* thread r can take a request
Free(r) == nreq < MaxRequests /\ req[r].pc \in {"idle", "done"}

InFlight(r) == req[r].pc \notin {"idle", "done"}

\* the pool hands a request to its first thread that is not serving one
Pool(r) == \A q \in 1..(r - 1) : InFlight(q)

\* a client that waits for each response before it sends the next request;
\* the threads take these requests in turn
Serial(r) == r = (nreq % NumReq) + 1 /\ \A q \in Reqs : ~InFlight(q)

Init ==
  /\ dbConfigured \in BOOLEAN
  /\ store = <<>>
  /\ nextId = 1
  /\ now = 0
  /\ req = [r \in Reqs |-> Idle]
  /\ nreq = 0
  /\ deleted = {}

\* the clock advances between any two steps
Tick ==
  /\ now < MaxTime
  /\ now' = now + 1
  /\ UNCHANGED <<dbConfigured, store, nextId, req, nreq, deleted>>

\* GET /api/tasks
list_tasks(r) ==
  /\ Free(r)
  /\ nreq' = nreq + 1
  /\ LET rq == Accept(r, "list", None) IN
       req' = [req EXCEPT ![r] =
         IF ~dbConfigured
         THEN Respond(rq, 500, "Database not configured", None)
         ELSE Respond(rq, 200, "",
                Some([i \in 1..Len(FindAllSorted(store)) |->
                        Val(serialize_task(Some(FindAllSorted(store)[i])))]))]
  /\ UNCHANGED <<dbConfigured, store, nextId, now, deleted>>

\* POST /api/tasks, up to and including create_document
create_task(r) ==
  /\ Free(r)
  /\ nreq' = nreq + 1
  /\ \E body \in CreateBodies :
       LET rq == Accept(r, "create", None) IN
       IF ~TaskCreateValid(body)
       THEN /\ req' = [req EXCEPT ![r] = Respond(rq, 422, "validation", None)]
            /\ UNCHANGED <<store, nextId>>
       ELSE IF ~dbConfigured
       THEN /\ req' = [req EXCEPT ![r] =
                         Respond(rq, 500, "Database not configured", None)]
            /\ UNCHANGED <<store, nextId>>
       ELSE LET payload == TaskCreate(body) IN
            /\ store' = CreateDocument(store, nextId,
                          [title |-> payload.title,
                           notes |-> payload.notes,
                           priority |-> payload.priority,
                           due_date |-> payload.due_date,
                           completed |-> Some(FALSE)], now)
            /\ nextId' = nextId + 1
            /\ req' = [req EXCEPT ![r] =
                         [rq EXCEPT !.pc = "create_find",
                                    !.task_id = Some(StrOid(nextId))]]
  /\ UNCHANGED <<dbConfigured, now, deleted>>

\* POST /api/tasks: the re-read and the response
create_find(r) ==
  /\ req[r].pc = "create_find"
  /\ req' = [req EXCEPT ![r] =
       Respond(req[r], 201, "",
         serialize_task(FindOne(store, ObjectId(Val(req[r].task_id)))))]
  /\ UNCHANGED <<dbConfigured, store, nextId, now, nreq, deleted>>

\* mutant of NoFields: the empty diff is not rejected
NoFieldsNever(updates) == FALSE

\* if not updates
NoFields(updates) == DOMAIN updates = {}

\* mutant of Stamp: the stamp goes to created_at as well
StampCreated(updates, t) ==
  SetFields(updates, [created_at |-> Some(t), updated_at |-> Some(t)])

\* updates["updated_at"] = datetime.utcnow()
Stamp(updates, t) == SetFields(updates, [updated_at |-> Some(t)])

\* PATCH /api/tasks/{task_id}, up to and including update_one
update_task(r) ==
  /\ Free(r)
  /\ nreq' = nreq + 1
  /\ \E task_id \in TaskIdInputs, body \in UpdateBodyInputs :
       LET rq == [Accept(r, "update", Some(task_id)) EXCEPT !.updates = Some(body)]
           oid == ObjectId(task_id)
           updates == ModelDumpExcludeUnset(TaskUpdate(body))
           stamped == Stamp(updates, now)
       IN
       IF ~TaskUpdateValid(body)
       THEN /\ req' = [req EXCEPT ![r] = Respond(rq, 422, "validation", None)]
            /\ store' = store
       ELSE IF ~dbConfigured
       THEN /\ req' = [req EXCEPT ![r] =
                         Respond(rq, 500, "Database not configured", None)]
            /\ store' = store
       ELSE IF ~ObjectIdParses(task_id)
       THEN /\ req' = [req EXCEPT ![r] = Respond(rq, 400, "Invalid task id", None)]
            /\ store' = store
       ELSE IF NoFields(updates)
       THEN /\ req' = [req EXCEPT ![r] =
                         Respond(rq, 400, "No fields to update", None)]
            /\ store' = store
       ELSE /\ store' = UpdateOne(store, oid, stamped)
            /\ req' = [req EXCEPT ![r] =
                 IF MatchedCount(store, oid) = 0
                 THEN Respond(rq, 404, "Task not found", None)
                 ELSE [rq EXCEPT !.pc = "update_find"]]
  /\ UNCHANGED <<dbConfigured, nextId, now, deleted>>

\* PATCH: the re-read and the response
update_find(r) ==
  /\ req[r].pc = "update_find"
  /\ req' = [req EXCEPT ![r] =
       Respond(req[r], 200, "",
         serialize_task(FindOne(store, ObjectId(Val(req[r].task_id)))))]
  /\ UNCHANGED <<dbConfigured, store, nextId, now, nreq, deleted>>

\* POST /api/tasks/{task_id}/toggle, up to and including the first find_one
toggle_task(r) ==
  /\ Free(r)
  /\ nreq' = nreq + 1
  /\ \E task_id \in TaskIdInputs :
       LET rq == Accept(r, "toggle", Some(task_id))
           doc == FindOne(store, ObjectId(task_id))
       IN
       req' = [req EXCEPT ![r] =
         IF ~dbConfigured
         THEN Respond(rq, 500, "Database not configured", None)
         ELSE IF ~ObjectIdParses(task_id)
         THEN Respond(rq, 400, "Invalid task id", None)
         ELSE IF IsNone(doc)
         THEN Respond(rq, 404, "Task not found", None)
         ELSE [rq EXCEPT !.pc = "toggle_update", !.doc = doc]]
  /\ UNCHANGED <<dbConfigured, store, nextId, now, deleted>>

\* mutant of NewVal: the toggle marks the task completed
NewValTrue(doc) == TRUE

\* new_val = not bool(doc.get("completed", False))
NewVal(doc) == ~Bool(GetOr(doc, "completed", Some(FALSE)))

\* mutant of ToggleSet: the toggle does not stamp updated_at
ToggleSetNoStamp(doc, t) == [completed |-> Some(NewVal(doc))]

\* mutant of ToggleSet: the negation of the value stored at the time of the
\* write (an atomic flip) instead of the value read before
ToggleSetCurrent(doc, t) ==
  [completed |->
     Some(NewVal(IF Val(doc["_id"]) \in DOMAIN store
                 THEN store[Val(doc["_id"])] ELSE doc)),
   updated_at |-> Some(t)]

\* {"completed": new_val, "updated_at": datetime.utcnow()}
ToggleSet(doc, t) == [completed |-> Some(NewVal(doc)), updated_at |-> Some(t)]

\* toggle: the update_one
toggle_update(r) ==
  /\ req[r].pc = "toggle_update"
  /\ store' = UpdateOne(store, ObjectId(Val(req[r].task_id)),
                ToggleSet(Val(req[r].doc), now))
  /\ req' = [req EXCEPT ![r].pc = "toggle_find"]
  /\ UNCHANGED <<dbConfigured, nextId, now, nreq, deleted>>

\* toggle: the re-read and the response
toggle_find(r) ==
  /\ req[r].pc = "toggle_find"
  /\ req' = [req EXCEPT ![r] =
       Respond(req[r], 200, "",
         serialize_task(FindOne(store, ObjectId(Val(req[r].task_id)))))]
  /\ UNCHANGED <<dbConfigured, store, nextId, now, nreq, deleted>>

\* DELETE /api/tasks/{task_id}
delete_task(r) ==
  /\ Free(r)
  /\ nreq' = nreq + 1
  /\ \E task_id \in TaskIdInputs :
       LET rq == Accept(r, "delete", Some(task_id))
           oid == ObjectId(task_id)
       IN
       IF ~dbConfigured
       THEN /\ req' = [req EXCEPT ![r] =
                         Respond(rq, 500, "Database not configured", None)]
            /\ UNCHANGED <<store, deleted>>
       ELSE IF ~ObjectIdParses(task_id)
       THEN /\ req' = [req EXCEPT ![r] = Respond(rq, 400, "Invalid task id", None)]
            /\ UNCHANGED <<store, deleted>>
       ELSE /\ store' = DeleteOne(store, oid)
            /\ deleted' = IF DeletedCount(store, oid) = 0 THEN deleted
                          ELSE deleted \cup {oid}
            /\ req' = [req EXCEPT ![r] =
                 IF DeletedCount(store, oid) = 0
                 THEN Respond(rq, 404, "Task not found", None)
                 ELSE Respond(rq, 204, "", None)]
  /\ UNCHANGED <<dbConfigured, nextId, now>>

\* Tick, a thread of the pool accepting a request and running its handler up
\* to the first store call, or a thread in a handler doing its next store call
Next ==
  \/ Tick
  \/ \E r \in Reqs :
       \/ Pool(r) /\ list_tasks(r)
       \/ Pool(r) /\ create_task(r)
       \/ Pool(r) /\ update_task(r)
       \/ Pool(r) /\ toggle_task(r)
       \/ Pool(r) /\ delete_task(r)
       \/ create_find(r)
       \/ update_find(r)
       \/ toggle_update(r)
       \/ toggle_find(r)

Spec == Init /\ [][Next]_vars

NextSerial ==
  \/ Tick
  \/ \E r \in Reqs :
       \/ Serial(r) /\ list_tasks(r)
       \/ Serial(r) /\ create_task(r)
       \/ Serial(r) /\ update_task(r)
       \/ Serial(r) /\ toggle_task(r)
       \/ Serial(r) /\ delete_task(r)
       \/ create_find(r)
       \/ update_find(r)
       \/ toggle_update(r)
       \/ toggle_find(r)

\* the service under a client that sends one request at a time
SpecSerial == Init /\ [][NextSerial]_vars

\* ---- properties ----
\* in this step thread r accepted a request (and ran its handler up to the
\* first store call, or to the response)
Accepted(r) == nreq' = nreq + 1 /\ req'[r].n = nreq'

\* the ObjectId a request addresses
Oid(rq) == ObjectId(Val(rq.task_id))

\* the task_id string is one ObjectId() rejects
Malformed(task_id) == task_id.kind # "hex24"

Responded(rq, status, detail) ==
  rq.pc = "done" /\ rq.status = status /\ rq.detail = detail

\* C1: a successful PATCH (its update_one matched the task) leaves every field
\* of the task outside the supplied set S and updated_at as it was, stores
\* each supplied value, an explicit null included, and adds no other key;
\* the other tasks are untouched.
C1_FrameEffect ==
  [][\A r \in Reqs :
       (Accepted(r) /\ req'[r].op = "update" /\ req'[r].pc = "update_find") =>
         LET oid == Oid(req'[r])
             body == Val(req'[r].updates)
             S == DOMAIN body
         IN /\ S # {}
            /\ oid \in DOMAIN store /\ oid \in DOMAIN store'
            /\ \A k \in DOMAIN store[oid] \ (S \cup {"updated_at"}) :
                 k \in DOMAIN store'[oid] /\ store'[oid][k] = store[oid][k]
            /\ \A k \in S : k \in DOMAIN store'[oid] /\ store'[oid][k] = body[k]
            /\ DOMAIN store'[oid] \subseteq DOMAIN store[oid] \cup S \cup {"updated_at"}
            /\ \A i \in DOMAIN store \ {oid} :
                 i \in DOMAIN store' /\ store'[i] = store[i]]_vars

\* C1 witness: a PATCH that supplied only notes, as null, succeeded; the task
\* has notes null and still the title it was created with.
C1_Witness ==
  \E r \in Reqs :
    /\ req[r].op = "update" /\ Responded(req[r], 200, "")
    /\ DOMAIN Val(req[r].updates) = {"notes"}
    /\ IsNone(Val(req[r].updates)["notes"])
    /\ Oid(req[r]) \in DOMAIN store
    /\ IsNone(store[Oid(req[r])]["notes"])
    /\ store[Oid(req[r])]["title"] = Some(MinTitleLen)

\* C2: where the store is configured, a PATCH with a well-formed id that
\* supplies no field is answered 400 "No fields to update", whether or not a
\* task has that id, and the step changes nothing in the store (so no
\* updated_at either).
C2_NoFields ==
  [][\A r \in Reqs :
       (Accepted(r) /\ req'[r].op = "update" /\ DOMAIN Val(req'[r].updates) = {}) =>
         /\ store' = store
         /\ (dbConfigured /\ ~Malformed(Val(req'[r].task_id))) =>
              Responded(req'[r], 400, "No fields to update")]_vars

\* C2 witness: the no-fields answer for the id of a task that has been
\* updated before (its updated_at is set, and older than the clock).
C2_Witness ==
  \E r \in Reqs :
    /\ req[r].op = "update" /\ Responded(req[r], 400, "No fields to update")
    /\ Oid(req[r]) \in DOMAIN store
    /\ "updated_at" \in DOMAIN store[Oid(req[r])]
    /\ Val(store[Oid(req[r])]["updated_at"]) < now

C4_TitleValid ==
  \A i \in DOMAIN store :
    /\ "title" \in DOMAIN store[i]
    /\ ~IsNone(store[i]["title"])
    /\ TitleOk(store[i]["title"])

\* C5: under a client that sends one request at a time, when a toggle that
\* found the task is directly followed by a toggle of the same id, both are
\* answered 200 with the task, the first carrying the negation of the value
\* it found and the second that value again, which is also what the store
\* holds until the next request.
C5_ToggleTwice ==
  \A r1, r2 \in Reqs :
    (/\ req[r1].op = "toggle" /\ req[r2].op = "toggle"
     /\ req[r2].n = req[r1].n + 1
     /\ req[r1].task_id = req[r2].task_id
     /\ ~IsNone(req[r1].doc)
     /\ req[r2].pc = "done") =>
      LET orig == Bool(Get(Val(req[r1].doc), "completed")) IN
      /\ Responded(req[r1], 200, "") /\ Responded(req[r2], 200, "")
      /\ ~IsNone(req[r1].body) /\ ~IsNone(req[r2].body)
      /\ Val(req[r1].body).completed = ~orig
      /\ Val(req[r2].body).completed = orig
      /\ nreq = req[r2].n =>
           /\ Oid(req[r2]) \in DOMAIN store
           /\ Bool(Get(store[Oid(req[r2])], "completed")) = orig

\* C5 witness: two successive toggles of a new task are both answered, the
\* first with completed true, the second with false; the task is not
\* completed.
C5_Witness ==
  \E r1, r2 \in Reqs :
    /\ req[r1].op = "toggle" /\ req[r2].op = "toggle"
    /\ req[r2].n = req[r1].n + 1
    /\ req[r1].task_id = req[r2].task_id
    /\ Responded(req[r1], 200, "") /\ Responded(req[r2], 200, "")
    /\ Val(req[r1].body).completed = TRUE
    /\ Val(req[r2].body).completed = FALSE
    /\ ~Bool(Get(store[Oid(req[r2])], "completed"))

\* C6: an id whose delete succeeded is never in the store again; a list
\* served afterwards does not contain it; a delete, a toggle or a PATCH
\* (validated, supplying a field) of that id accepted afterwards is answered
\* 404 "Task not found" and changes nothing.
C6_DeletedStaysGone ==
  [][/\ deleted' \cap DOMAIN store' = {}
     /\ \A r \in Reqs :
          /\ (Accepted(r) /\ req'[r].op = "list" /\ ~IsNone(req'[r].body)) =>
               \A k \in 1..Len(Val(req'[r].body)) :
                 ObjectId(Val(req'[r].body)[k].id) \notin deleted
          /\ (/\ Accepted(r)
              /\ req'[r].op \in {"update", "toggle", "delete"}
              /\ ~Malformed(Val(req'[r].task_id))
              /\ Oid(req'[r]) \in deleted
              /\ req'[r].op = "update" =>
                   /\ TaskUpdateValid(Val(req'[r].updates))
                   /\ DOMAIN Val(req'[r].updates) # {}) =>
               /\ Responded(req'[r], 404, "Task not found")
               /\ store' = store]_vars

\* C6 witness: the second delete of an id, answered not-found.
C6_Witness ==
  \E r \in Reqs :
    /\ req[r].op = "delete" /\ Responded(req[r], 404, "Task not found")
    /\ Oid(req[r]) \in deleted

\* thread r's step was the update_one of a PATCH that matched task i
UpdateWrote(r, i) ==
  /\ Accepted(r) /\ req'[r].op = "update" /\ req'[r].pc = "update_find"
  /\ Oid(req'[r]) = i

\* thread r's step was the update_one of a toggle, and task i matched
ToggleWrote(r, i) ==
  /\ req[r].pc = "toggle_update" /\ req'[r].pc = "toggle_find"
  /\ Oid(req[r]) = i /\ i \in DOMAIN store

\* C7: a task enters the store without updated_at; the update_one of every
\* PATCH and of every toggle that matches a task sets its updated_at to the
\* clock's reading; no other step (a list, a create, a delete of another
\* task, a re-read, a request answered with an error) changes any task's
\* updated_at.
C7_UpdatedAt ==
  [][/\ \A i \in DOMAIN store' \ DOMAIN store : "updated_at" \notin DOMAIN store'[i]
     /\ \A i \in DOMAIN store \cap DOMAIN store' :
          /\ (\E r \in Reqs : UpdateWrote(r, i) \/ ToggleWrote(r, i)) =>
               Get(store'[i], "updated_at") = Some(now)
          /\ Get(store'[i], "updated_at") # Get(store[i], "updated_at") =>
               \E r \in Reqs : UpdateWrote(r, i) \/ ToggleWrote(r, i)]_vars

\* C7 witness: a toggle has just written; the task's updated_at is the
\* clock's reading, later than its created_at.
C7_Witness ==
  \E r \in Reqs :
    /\ req[r].op = "toggle" /\ req[r].pc = "toggle_find"
    /\ Oid(req[r]) \in DOMAIN store
    /\ Get(store[Oid(req[r])], "updated_at") = Some(now)
    /\ Val(store[Oid(req[r])]["created_at"]) < now

\* C8: create answers with the id and the created_at of the document it
\* inserted, and no step changes the _id or the created_at of a task that
\* stays in the store.
C8_IdCreatedAtFixed ==
  [][/\ \A i \in DOMAIN store \cap DOMAIN store' :
          /\ store'[i]["_id"] = Some(i) /\ store[i]["_id"] = Some(i)
          /\ "created_at" \in DOMAIN store'[i]
          /\ store'[i]["created_at"] = store[i]["created_at"]
     /\ \A r \in Reqs :
          (req[r].pc = "create_find" /\ req'[r].pc = "done"
             /\ Oid(req[r]) \in DOMAIN store) =>
            /\ ~IsNone(req'[r].body)
            /\ Val(req'[r].body).id = StrOid(Oid(req[r]))
            /\ Val(req'[r].body).created_at =
                 Some(IsoFormat(Val(store[Oid(req[r])]["created_at"])))]_vars

\* C8 witness: a task created at time 0 has been updated at a later time
\* and a second task exists; the first still has created_at 0.
C8_Witness ==
  /\ Cardinality(DOMAIN store) = 2
  /\ \E i \in DOMAIN store :
       /\ store[i]["created_at"] = Some(0)
       /\ "updated_at" \in DOMAIN store[i]
       /\ Val(store[i]["updated_at"]) > 0

\* a toggle of task i that has done its update_one (and, if it has answered,
\* answered 200 with a task)
Toggled(rq, i) ==
  /\ rq.op = "toggle" /\ ~IsNone(rq.doc) /\ Oid(rq) = i
  /\ \/ rq.pc = "toggle_find"
     \/ Responded(rq, 200, "") /\ ~IsNone(rq.body)

\* C9: toggle writes the negation of the value it read, not of the value
\* stored when it writes: when two toggles of a task have both read the same
\* completed value v and both written, and no request came after them and no
\* other toggle of the task is still to write, the task holds ~v: negated
\* once, not twice.
C9_LostToggle ==
  \A r1, r2 \in Reqs : \A i \in DOMAIN store :
    (/\ r1 # r2
     /\ Toggled(req[r1], i) /\ Toggled(req[r2], i)
     /\ NewVal(Val(req[r1].doc)) = NewVal(Val(req[r2].doc))
     /\ nreq = IF req[r1].n > req[r2].n THEN req[r1].n ELSE req[r2].n
     /\ \A q \in Reqs : ~(req[q].pc = "toggle_update" /\ Oid(req[q]) = i)) =>
      Bool(Get(store[i], "completed")) = NewVal(Val(req[r1].doc))

\* C9 witness: two toggles of one task both read completed = false and both
\* answered 200 with completed = true; the task is completed.
C9_Witness ==
  \E r1, r2 \in Reqs : \E i \in DOMAIN store :
    /\ r1 # r2
    /\ Toggled(req[r1], i) /\ Toggled(req[r2], i)
    /\ req[r1].pc = "done" /\ req[r2].pc = "done"
    /\ ~Bool(Get(Val(req[r1].doc), "completed"))
    /\ ~Bool(Get(Val(req[r2].doc), "completed"))
    /\ Val(req[r1].body).completed /\ Val(req[r2].body).completed
    /\ Bool(Get(store[i], "completed"))

\* C10: every PATCH and every toggle answered 200 carries a task (never an
\* absent body).
C10_SuccessHasBody ==
  \A r \in Reqs :
    (req[r].op \in {"update", "toggle"} /\ Responded(req[r], 200, "")) =>
      ~IsNone(req[r].body)
====
